---- MODULE Spec2Model ----
(***************************************************************************)
(* db-test-rs: a TCP request/response server (src/service.rs) with the     *)
(* coffee RPC handler plugged into it (src/main.rs).                       *)
(*                                                                         *)
(* Text is modelled by TLA+ strings, one character per byte: a Rust String *)
(* is a UTF-8 byte sequence and every character used here is ASCII, so Len *)
(* is String::len().  The one byte that is not text is written NonUtf8.    *)
(***************************************************************************)
EXTENDS Integers, Sequences, FiniteSets, TLC

(***************************************************************************)
(* Text helpers (std::str).                                                *)
(***************************************************************************)
Ch(s, i) == IF i >= 1 /\ i <= Len(s) THEN SubSeq(s, i, i) ELSE ""

From(s, i) == IF i > Len(s) THEN "" ELSE SubSeq(s, i, Len(s))

StartsAt(s, i, pat) == /\ i + Len(pat) - 1 <= Len(s)
                       /\ SubSeq(s, i, i + Len(pat) - 1) = pat

Min(a, b) == IF a < b THEN a ELSE b

\* the search looks at this many positions at a time
Stride == 16

\* the least of a non-empty set of positions
First(hits) == CHOOSE j \in hits : \A k \in hits : j <= k

RECURSIVE Find(_, _, _)
\* str::find from position i: index of the first match of pat, 0 if none
Find(s, i, pat) ==
    IF i + Len(pat) - 1 > Len(s) THEN 0
    ELSE IF \E j \in i..(i + Stride - 1) : StartsAt(s, j, pat)
    THEN First({j \in i..(i + Stride - 1) : StartsAt(s, j, pat)})
    ELSE Find(s, i + Stride, pat)

\* a byte that no UTF-8 text contains (0xFF)
NonUtf8 == "\f"

SEPARATOR == "\r\n\r\n"

\* String::from_utf8: Err when the bytes are not UTF-8, else the same text
from_utf8(bytes) ==
    IF Find(bytes, 1, NonUtf8) # 0 THEN [ok |-> FALSE, text |-> ""]
    ELSE [ok |-> TRUE, text |-> bytes]

\* req.split("\r\n\r\n").nth(1): the piece between the first separator and
\* the second one (or the end of the text); None without a separator
split_nth1(req) ==
    LET first == Find(req, 1, SEPARATOR)
        start == first + Len(SEPARATOR)
        second == Find(req, start, SEPARATOR)
    IN  IF first = 0 THEN [some |-> FALSE, body |-> ""]
        ELSE IF second = 0 THEN [some |-> TRUE, body |-> From(req, start)]
        ELSE [some |-> TRUE, body |-> SubSeq(req, start, second - 1)]

(***************************************************************************)
(* serde_json values.  A value is [t, s, m]: t its kind, s the text of a   *)
(* string or number, m the members <<[k, val]>> of an object.  The grammar *)
(* read here is JSON without arrays, floats and \u escapes.                *)
(***************************************************************************)
Null == [t |-> "null", s |-> "", m |-> <<>>]
Str(s) == [t |-> "str", s |-> s, m |-> <<>>]
Num(s) == [t |-> "num", s |-> s, m |-> <<>>]
Bool(s) == [t |-> "bool", s |-> s, m |-> <<>>]
Obj(m) == [t |-> "obj", s |-> "", m |-> m]

Fail == [ok |-> FALSE, val |-> Null, next |-> 0]
Done(v, n) == [ok |-> TRUE, val |-> v, next |-> n]

IsWs(c) == c \in {" ", "\n", "\r", "\t"}
IsDigit(c) == c \in {"0", "1", "2", "3", "4", "5", "6", "7", "8", "9"}

RECURSIVE SkipWs(_, _)
SkipWs(s, i) == IF IsWs(Ch(s, i)) THEN SkipWs(s, i + 1) ELSE i

RECURSIVE ScanString(_, _, _)
\* the characters of a JSON string from position i (after the opening quote)
ScanString(s, i, acc) ==
    LET c == Ch(s, i)
        e == Ch(s, i + 1)
    IN  IF c = "" THEN Fail
        ELSE IF c = "\"" THEN Done(Str(acc), i + 1)
        ELSE IF c = "\\" THEN
            IF e = "\"" \/ e = "\\" THEN ScanString(s, i + 2, acc \o e)
            ELSE IF e = "n" THEN ScanString(s, i + 2, acc \o "\n")
            ELSE IF e = "r" THEN ScanString(s, i + 2, acc \o "\r")
            ELSE IF e = "t" THEN ScanString(s, i + 2, acc \o "\t")
            ELSE Fail
        ELSE IF c \in {"\n", "\r", "\t", "\f"} THEN Fail
        ELSE ScanString(s, i + 1, acc \o c)

RECURSIVE ScanDigits(_, _)
ScanDigits(s, i) == IF IsDigit(Ch(s, i)) THEN ScanDigits(s, i + 1) ELSE i

ParseNumber(s, i) ==
    LET d == IF Ch(s, i) = "-" THEN i + 1 ELSE i
        e == ScanDigits(s, d)
    IN  IF e = d THEN Fail ELSE Done(Num(SubSeq(s, i, e - 1)), e)

RECURSIVE ParseValue(_, _)
RECURSIVE ParseMembers(_, _, _)

\* after a member's value, at position e: "," and more members, or "}"
MemberEnd(s, e, more) ==
    IF Ch(s, e) = "," THEN ParseMembers(s, e + 1, more)
    ELSE IF Ch(s, e) = "}" THEN Done(Obj(more), e + 1)
    ELSE Fail

\* the member with key k and parsed value v joins the members so far
MemberValue(s, k, v, acc) ==
    IF ~v.ok THEN Fail
    ELSE MemberEnd(s, SkipWs(s, v.next), Append(acc, [k |-> k, val |-> v.val]))

\* after the parsed key, at position colon: ":" and the value
MemberColon(s, key, colon, acc) ==
    IF ~key.ok \/ Ch(s, colon) # ":" THEN Fail
    ELSE MemberValue(s, key.val.s, ParseValue(s, colon + 1), acc)

MemberKey(s, key, acc) == MemberColon(s, key, SkipWs(s, key.next), acc)

\* a member starts at position k with its key, a string
Member(s, k, acc) ==
    IF Ch(s, k) # "\"" THEN Fail
    ELSE MemberKey(s, ScanString(s, k + 1, ""), acc)

\* the members of an object from position i (after "{" or after ",")
ParseMembers(s, i, acc) == Member(s, SkipWs(s, i), acc)

\* an object whose first character after "{" is at position k
ObjectAt(s, k) ==
    IF Ch(s, k) = "}" THEN Done(Obj(<<>>), k + 1)
    ELSE ParseMembers(s, k, <<>>)

\* one JSON value that starts at position j with character c
ValueAt(s, j, c) ==
    IF c = "\"" THEN ScanString(s, j + 1, "")
    ELSE IF c = "-" \/ IsDigit(c) THEN ParseNumber(s, j)
    ELSE IF StartsAt(s, j, "null") THEN Done(Null, j + 4)
    ELSE IF StartsAt(s, j, "true") THEN Done(Bool("true"), j + 4)
    ELSE IF StartsAt(s, j, "false") THEN Done(Bool("false"), j + 5)
    ELSE IF c = "{" THEN ObjectAt(s, SkipWs(s, j + 1))
    ELSE Fail

ValueFrom(s, j) == ValueAt(s, j, Ch(s, j))

\* one JSON value from position i, leading whitespace skipped
ParseValue(s, i) == ValueFrom(s, SkipWs(s, i))

\* the parsed value v must be followed by whitespace only
Complete(s, v) ==
    IF v.ok /\ SkipWs(s, v.next) = Len(s) + 1 THEN v ELSE Fail

\* serde_json::from_str::<Value>: one value, then only whitespace
from_str(s) == Complete(s, ParseValue(s, 1))

\* the members of object v whose key is k, in order
Fields(v, k) == SelectSeq(v.m, LAMBDA e : e.k = k)


\* the last member of object v named k (serde_json::Map keeps the last one)
Get(v, k) == LET f == Fields(v, k) IN IF f = <<>> THEN Null ELSE f[Len(f)].val
Has(v, k, kind) == Fields(v, k) # <<>> /\ Get(v, k).t = kind
\* an Option<_> field: absent, null or of the kind
Opt(v, k, kind) == Fields(v, k) = <<>> \/ Get(v, k).t \in {"null", kind}

\* serde_json's escape of one character
EscapeChar(c) ==
    IF c = "\"" THEN "\\\""
    ELSE IF c = "\\" THEN "\\\\"
    ELSE IF c = "\n" THEN "\\n"
    ELSE IF c = "\r" THEN "\\r"
    ELSE IF c = "\t" THEN "\\t"
    ELSE c

RECURSIVE Escape(_)
\* serde_json's string escaping: every character's escape, in order (the
\* text is halved to keep the evaluation shallow)
Escape(s) ==
    IF Len(s) <= 1 THEN EscapeChar(s)
    ELSE LET h == Len(s) \div 2
         IN  Escape(SubSeq(s, 1, h)) \o Escape(SubSeq(s, h + 1, Len(s)))

RECURSIVE to_string(_)
RECURSIVE JoinMembers(_)
JoinMembers(m) ==
    IF m = <<>> THEN ""
    ELSE "\"" \o Escape(Head(m).k) \o "\":" \o to_string(Head(m).val)
         \o (IF Len(m) > 1 THEN "," ELSE "") \o JoinMembers(Tail(m))

\* serde_json::to_string: compact JSON text of a value; () serializes as null
to_string(v) ==
    IF v.t = "str" THEN "\"" \o Escape(v.s) \o "\""
    ELSE IF v.t = "num" \/ v.t = "bool" THEN v.s
    ELSE IF v.t = "obj" THEN "{" \o JoinMembers(v.m) \o "}"
    ELSE "null"

(***************************************************************************)
(* Response model and encoding (src/service.rs).                           *)
(***************************************************************************)
Response(status, body) == [status |-> status, body |-> body]

OK == Response("200 OK", "")
\* a status that is none of the three
BAD_REQUEST_unprocessable == Response("422 Unprocessable Entity", "")

BAD_REQUEST == Response("400 Bad Request", "")
INTERNAL_SERVER_ERROR == Response("500 Internal Server Error", "")

\* Result<T, E>: Ok(v) carries a value, Err(e) the error's message
Ok(v) == [ok |-> TRUE, v |-> v, err |-> ""]
Err(e) == [ok |-> FALSE, v |-> Null, err |-> e]

\* the bare () a handler may return
Unit == [ok |-> TRUE, v |-> [t |-> "unit", s |-> "", m |-> <<>>], err |-> ""]

\* a payload whose Serialize impl fails, such as a map with keys that are
\* not strings
Unserializable == [t |-> "unserializable", s |-> "", m |-> <<>>]

\* the task unwinds: no Response is made
Panicked == Response("", "called Result::unwrap() on an Err value")

\* the unit encoded the way Ok(()) is
into_response_unit_null == Response("200 OK", "null")

\* impl IntoResponse for ()
into_response_unit == Response("200 OK", "{}")

\* into_response with the failure's message serialized like a payload
into_response_quoted(r) ==
    IF r.ok THEN Response("200 OK", to_string(r.v))
    ELSE Response("500 Internal Server Error", to_string(Str(r.err)))

\* impl IntoResponse for Result<T, E>; serde_json::to_string(&v).unwrap()
\* panics when v does not serialize
into_response(r) ==
    IF ~r.ok THEN Response("500 Internal Server Error", r.err)
    ELSE IF r.v = Unserializable THEN Panicked
    ELSE Response("200 OK", to_string(r.v))

\* res.into_response(): the impl is chosen by the type of the result
encode(r) == IF r = Unit THEN into_response_unit ELSE into_response(r)

\* struct Request { method: String, #[serde(default)] data: Value }
Request(method, payload) == [method |-> method, data |-> payload]

NoRequest == [ok |-> FALSE, req |-> Request("", Null)]

\* Deserialize for Request: the value must be an object with exactly one
\* string member "method" and at most one member "data"; other members are
\* ignored
deserialize(v) ==
    IF ~v.ok \/ v.val.t # "obj" THEN NoRequest
    ELSE IF Len(Fields(v.val, "method")) # 1 THEN NoRequest
    ELSE IF Get(v.val, "method").t # "str" THEN NoRequest
    ELSE IF Len(Fields(v.val, "data")) > 1 THEN NoRequest
    ELSE [ok |-> TRUE,
          req |-> Request(Get(v.val, "method").s, Get(v.val, "data"))]

\* parse_request: serde_json::from_str(data).context("Invalid Request")
parse_request(text) == deserialize(from_str(text))

\* response with Content-Length taken from the wrong field
response_status_len(res) ==
    "HTTP/1.1 " \o res.status \o "\r\n"
    \o "Content-Type: application/json\r\n"
    \o "Content-Length: " \o ToString(Len(res.status)) \o "\r\n\r\n"
    \o res.body

\* response: the framed bytes of a Response
response(res) ==
    "HTTP/1.1 " \o res.status \o "\r\n"
    \o "Content-Type: application/json\r\n"
    \o "Content-Length: " \o ToString(Len(res.body)) \o "\r\n\r\n"
    \o res.body


(***************************************************************************)
(* The application handler (src/main.rs).  The storage engine is outside   *)
(* the program: what a query gives is an input, one of DbOutcomes.         *)
(***************************************************************************)
\* "row": the query succeeds; "no_row": it fails; "null_id": it gives a row
\* whose id is NULL
DbOutcomes == {"row", "no_row", "null_id"}

RowNotFound ==
    "no rows returned by a query that expected to return at least one row"
DatabaseError == "error returned from database"
Elapsed == "deadline has elapsed"

\* a stored Coffee row
Coffee == Obj(<<[k |-> "id", val |-> Str("V1StGXR8")],
                [k |-> "roastery", val |-> Str("r")],
                [k |-> "icon", val |-> Str("i")],
                [k |-> "farmer", val |-> Str("f")],
                [k |-> "price", val |-> Num("7")],
                [k |-> "origin", val |-> Str("o")]>>)

\* enum Methods, #[serde(tag = "method", content = "data")]
Methods ==
    {"GetRandomCoffee", "AddCoffee", "GrabId", "GrabCoffee", "EditCoffee"}

\* whether data deserializes as the content of variant method
ContentFits(method, d) ==
    IF method = "GetRandomCoffee" THEN d.t = "null"
    ELSE IF method = "GrabCoffee" THEN d.t = "str"
    ELSE IF method = "GrabId" THEN
        d.t = "obj" /\ Has(d, "roastery", "str") /\ Has(d, "origin", "str")
    ELSE IF method = "AddCoffee" THEN
        /\ d.t = "obj"
        /\ Has(d, "roastery", "str") /\ Has(d, "icon", "str")
        /\ Has(d, "farmer", "str") /\ Has(d, "price", "num")
        /\ Has(d, "origin", "str")
    ELSE /\ d.t = "obj"
         /\ Has(d, "id", "str")
         /\ Opt(d, "roastery", "str") /\ Opt(d, "icon", "str")
         /\ Opt(d, "farmer", "str") /\ Opt(d, "price", "num")
         /\ Opt(d, "origin", "str")

\* serde_json::from_value::<Methods>(to_value(req)): the error message, or ""
from_value(req) ==
    IF req.method \notin Methods
    THEN "unknown variant " \o req.method
    ELSE IF ~ContentFits(req.method, req.data)
    THEN "invalid type for " \o req.method
    ELSE ""

\* fetch_one(db) of a Coffee row
get_random_coffee(db) == IF db = "no_row" THEN Err(RowNotFound) ELSE Ok(Coffee)
grab_coffee(db) == IF db = "no_row" THEN Err(RowNotFound) ELSE Ok(Coffee)
edit_coffee(db) == IF db = "no_row" THEN Err(RowNotFound) ELSE Ok(Coffee)

grab_id(db) ==
    IF db = "no_row" THEN Err(RowNotFound)
    ELSE IF db = "null_id" THEN Err("No coffee found")
    ELSE Ok(Get(Coffee, "id"))

\* execute(db) of the INSERT; the unit result serializes as null
add_coffee(db) == IF db = "no_row" THEN Err(DatabaseError) ELSE Ok(Null)

\* match method { ... }: the Result of the call the method names
dispatch(req, db) ==
    IF req.method = "AddCoffee" THEN add_coffee(db)
    ELSE IF req.method = "GetRandomCoffee" THEN get_random_coffee(db)
    ELSE IF req.method = "GrabId" THEN grab_id(db)
    ELSE IF req.method = "GrabCoffee" THEN grab_coffee(db)
    ELSE edit_coffee(db)

\* rpc_router: an unknown call is an Err; every call that is routed gives
\* Ok(the body of the call's own response)
rpc_router(req, db) ==
    IF from_value(req) # "" THEN Err(from_value(req))
    ELSE Ok(Str(into_response(dispatch(req, db)).body))

\* handle_with_timeout with the timeout turned into a success value
handle_with_timeout_ok(req, db, elapsed) ==
    IF elapsed THEN Ok(Str(Elapsed))
    ELSE Ok(Str(into_response(rpc_router(req, db)).body))

\* handle_with_timeout: Err(Elapsed) when the deadline fires first, else
\* Ok(the body of the router's response)
handle_with_timeout(req, db, elapsed) ==
    IF elapsed THEN Err(Elapsed)
    ELSE Ok(Str(into_response(rpc_router(req, db)).body))

\* run_request: awaits the handler and returns what it returned
run_request(req, db, elapsed) == handle_with_timeout(req, db, elapsed)


(***************************************************************************)
(* The server (src/service.rs): server_loop and one handle_connection task *)
(* per accepted connection.                                                *)
(***************************************************************************)
MaxConns == 2
Conns == 1..MaxConns

\* let mut data = [0u8; 1024]
BUF_SIZE == 1024

\* what a client may send in one piece
Inputs ==
    { "POST / HTTP/1.1\r\n\r\n{\"method\":\"GetRandomCoffee\"}",
      "X\r\n\r\n{\"method\":\"Ping\",\"data\":null}",
      "X\r\n\r\n{\"method\":\"GetRandomCoffee\",\r\n\r\n\"data\":null}",
      "X\r\n\r\n{\"data\":null}",
      "X\r\n{\"method\":\"GetRandomCoffee\"}",
      "X\r\n\r\n{\"method\":\"GetRandomCoffee\"}" \o NonUtf8 }

VARIABLES
    lpc,        \* where server_loop is: connect, init_db, bind, accept, exited
    st,         \* per connection: unborn, backlog, Reading, Dispatching,
                \* Responding, Flushing, Closed
    rx,         \* bytes that arrived on the socket and were not read yet
    data,       \* data[..len] of the read being handled, "" between reads
    body,       \* the payload handed to parse_request for that read
    invoked,    \* handler invocations for that read
    done,       \* how the handler ended: a DbOutcome, "elapsed", "" if not yet
    pend,       \* the framed bytes send_response is writing
    tx,         \* the frames written to the socket for that read
    logged,     \* the error the spawned task logged, "" if none
    softFailed, \* the soft failure the open connection last went through:
                \* "framing" (answered 400), "timeout", "" if none
    arg,        \* the Result under encoding (encoding specification only)
    res,        \* its Response
    pool        \* the storage handle: made, how many SqlitePool::connect
                \* calls returned one; schema, how many initialize_db runs
                \* completed; held[c], the handle connection task c was
                \* given (the number of the connect call that made it), 0
                \* if none

connVars == <<st, rx, data, body, invoked, done, pend, tx, logged, softFailed>>
vars == <<lpc, connVars, arg, res, pool>>

NoArg == [ok |-> FALSE, v |-> Null, err |-> ""]
NoRes == Response("", "")
NoPool == [made |-> 0, schema |-> 0, held |-> [c \in Conns |-> 0]]

Init ==
    /\ lpc = "connect"
    /\ st = [c \in Conns |-> "unborn"]
    /\ rx = [c \in Conns |-> ""]
    /\ data = [c \in Conns |-> ""]
    /\ body = [c \in Conns |-> ""]
    /\ invoked = [c \in Conns |-> 0]
    /\ done = [c \in Conns |-> ""]
    /\ pend = [c \in Conns |-> ""]
    /\ tx = [c \in Conns |-> <<>>]
    /\ logged = [c \in Conns |-> ""]
    /\ softFailed = [c \in Conns |-> ""]
    /\ arg = NoArg
    /\ res = NoRes
    /\ pool = NoPool

\* the process runs until server_loop returns into main
Running == lpc # "exited"

\* every task writing to the first connection's socket
socket_shared(c) == 1

\* the socket a connection task writes to: the one accept gave it
socket(c) == c

(* server_loop, before the loop *)
PoolConnect ==
    /\ lpc = "connect"
    /\ lpc' = "init_db"
    /\ pool' = [pool EXCEPT !.made = @ + 1]
    /\ UNCHANGED <<connVars, arg, res>>

InitializeDb ==
    /\ lpc = "init_db"
    /\ lpc' = "bind"
    /\ pool' = [pool EXCEPT !.schema = @ + 1]
    /\ UNCHANGED <<connVars, arg, res>>

Bind ==
    /\ lpc = "bind"
    /\ lpc' = "accept"
    /\ UNCHANGED <<connVars, arg, res, pool>>

\* any of the three fails: `?` returns the error and main exits
StartupFail ==
    /\ lpc \in {"connect", "init_db", "bind"}
    /\ lpc' = "exited"
    /\ UNCHANGED <<connVars, arg, res, pool>>

\* a client connects to the bound listener
ClientConnect(c) ==
    /\ lpc = "accept"
    /\ st[c] = "unborn"
    /\ st' = [st EXCEPT ![c] = "backlog"]
    /\ UNCHANGED <<lpc, rx, data, body, invoked, done, pend, tx, logged,
                   softFailed, arg, res, pool>>

\* the accept loop awaiting each connection's handling before the next accept
AtAccept_awaits ==
    /\ lpc = "accept"
    /\ \A d \in Conns : st[d] \in {"unborn", "backlog", "Closed"}

\* whether the accept loop is at listener.accept()
AtAccept == lpc = "accept"

\* every task connecting a pool of its own
Accept_reconnect(c) ==
    /\ AtAccept
    /\ st[c] = "backlog"
    /\ st' = [st EXCEPT ![c] = "Reading"]
    /\ pool' = [pool EXCEPT !.made = @ + 1, !.held[c] = pool.made + 1]
    /\ UNCHANGED <<lpc, rx, data, body, invoked, done, pend, tx, logged,
                   softFailed, arg, res>>

\* listener.accept() returns a socket; the task is spawned, not awaited,
\* and is given db, the leaked clone of the one pool
Accept(c) ==
    /\ AtAccept
    /\ st[c] = "backlog"
    /\ st' = [st EXCEPT ![c] = "Reading"]
    /\ pool' = [pool EXCEPT !.held[c] = pool.made]
    /\ UNCHANGED <<lpc, rx, data, body, invoked, done, pend, tx, logged,
                   softFailed, arg, res>>

\* listener.accept() fails: `?` ends server_loop, main returns and the
\* process exits: every task is dropped and every socket closed
AcceptFail ==
    /\ lpc = "accept"
    /\ lpc' = "exited"
    /\ st' = [c \in Conns |-> IF st[c] = "unborn" THEN "unborn" ELSE "Closed"]
    /\ rx' = [c \in Conns |-> ""]
    /\ data' = [c \in Conns |-> ""]
    /\ body' = [c \in Conns |-> ""]
    /\ invoked' = [c \in Conns |-> 0]
    /\ done' = [c \in Conns |-> ""]
    /\ pend' = [c \in Conns |-> ""]
    /\ tx' = [c \in Conns |-> <<>>]
    /\ softFailed' = [c \in Conns |-> ""]
    /\ UNCHANGED <<logged, arg, res, pool>>


(* handle_connection *)

\* `continue` with no response sent
soft_failure_silent ==
    [to |-> "Reading", body |-> "", soft |-> TRUE, calls |-> 0,
     reply |-> "", error |-> ""]

\* `break` in place of the 400 and `continue`
soft_failure_break ==
    [to |-> "Closed", body |-> "", soft |-> FALSE, calls |-> 0,
     reply |-> "", error |-> ""]

\* send_response(&mut socket, status::BAD_REQUEST).await?; continue
soft_failure ==
    [to |-> "Responding", body |-> "", soft |-> TRUE, calls |-> 0,
     reply |-> response(BAD_REQUEST), error |-> ""]

\* a decode failure answered 400 like a framing failure
decoded_soft(payload, pr) ==
    IF ~pr.ok THEN soft_failure
    ELSE [to |-> "Dispatching", body |-> payload, soft |-> FALSE,
          calls |-> 1, reply |-> "", error |-> ""]

\* line 155: parse_request(body)? ends the task with the error, else
\* run_request is awaited on the request
decoded(payload, pr) ==
    IF ~pr.ok
    THEN [to |-> "Closed", body |-> payload, soft |-> FALSE, calls |-> 0,
          reply |-> "", error |-> "Invalid Request"]
    ELSE [to |-> "Dispatching", body |-> payload, soft |-> FALSE,
          calls |-> 1, reply |-> "", error |-> ""]

\* lines 150-154: let Some(body) = req.split("\r\n\r\n").nth(1) else ...
separated(sp) ==
    IF ~sp.some THEN soft_failure
    ELSE decoded(sp.body, parse_request(sp.body))

\* lines 145-149: let Ok(req) = String::from_utf8(req) else ...
decoded_text(utf) ==
    IF ~utf.ok THEN soft_failure
    ELSE separated(split_nth1(utf.text))

\* lines 144-155, from the bytes of one read to the next await: a 400 to
\* send, the end of the task on `?`, or the handler to run on the request
framing(req) == decoded_text(from_utf8(req))

\* the connection moves on as framing says
Framed(c, f) ==
    /\ body' = [body EXCEPT ![c] = f.body]
    /\ invoked' = [invoked EXCEPT ![c] = f.calls]
    /\ pend' = [pend EXCEPT ![c] = f.reply]
    /\ st' = [st EXCEPT ![c] = f.to]
    /\ logged' = [logged EXCEPT ![c] = f.error]
    /\ softFailed' = [softFailed EXCEPT ![c] =
            IF f.soft THEN "framing" ELSE IF f.to = "Closed" THEN "" ELSE @]

\* the read issued while the previous response is still being flushed
AtRead_early(c) == st[c] \in {"Reading", "Flushing"}

\* the task is at socket.read(&mut data), line 140
AtRead(c) == st[c] = "Reading"

\* a read that takes everything that arrived, whatever the buffer holds
taken_all(avail) == avail

\* data[..len]: what one read takes of the bytes that arrived
taken(avail) == SubSeq(avail, 1, Min(Len(avail), BUF_SIZE))

\* socket.read returns len > 0 bytes, which are framed at once; the bytes
\* are those left over from what arrived before, else what the client sends
\* next, one of inputs
ReadFrom(c, inputs) ==
    /\ Running
    /\ AtRead(c)
    /\ \E bytes \in inputs :
        LET avail == IF rx[c] # "" THEN rx[c] ELSE bytes
        IN  /\ rx' = [rx EXCEPT ![c] = From(avail, Len(taken(avail)) + 1)]
            /\ data' = [data EXCEPT ![c] = taken(avail)]
            /\ Framed(c, framing(taken(avail)))
    /\ UNCHANGED <<lpc, done, tx, arg, res, pool>>

Read(c) == ReadFrom(c, Inputs)

\* a zero-length read treated as a failed one
ReadEof_error(c) ==
    /\ Running
    /\ st[c] = "Reading"
    /\ rx[c] = ""
    /\ st' = [st EXCEPT ![c] = "Closed"]
    /\ logged' = [logged EXCEPT ![c] = "io error"]
    /\ softFailed' = [softFailed EXCEPT ![c] = ""]
    /\ UNCHANGED <<lpc, rx, data, body, invoked, done, pend, tx, arg, res, pool>>

\* socket.read returns 0: the peer closed, the loop breaks, Ok(())
ReadEof(c) ==
    /\ Running
    /\ st[c] = "Reading"
    /\ rx[c] = ""
    /\ st' = [st EXCEPT ![c] = "Closed"]
    /\ softFailed' = [softFailed EXCEPT ![c] = ""]
    /\ UNCHANGED <<lpc, rx, data, body, invoked, done, pend, tx, logged,
                   arg, res, pool>>

IoError == "io error"

\* socket.read fails: `?` ends the task, which logs the error
ReadFail(c) ==
    /\ Running
    /\ st[c] = "Reading"
    /\ st' = [st EXCEPT ![c] = "Closed"]
    /\ logged' = [logged EXCEPT ![c] = IoError]
    /\ softFailed' = [softFailed EXCEPT ![c] = ""]
    /\ UNCHANGED <<lpc, rx, data, body, invoked, done, pend, tx, arg, res, pool>>

\* the request run_request is given: the decoded payload of the read
request(c) == parse_request(body[c]).req

\* lines 155-156 and send_response: the framed bytes of the response to
\* what run_request returns
reply(c, db, late) ==
    response(into_response(run_request(request(c), db, late)))

\* what the storage engine may answer to the request's query; "none" when
\* the router rejects the call before any query
QueryOutcomes(req) ==
    IF from_value(req) # "" THEN {"none"}
    ELSE IF req.method = "GrabId" THEN DbOutcomes
    ELSE DbOutcomes \ {"null_id"}

\* the handler's future completes before the deadline
HandlerReturns(c) ==
    /\ Running
    /\ st[c] = "Dispatching"
    /\ \E db \in QueryOutcomes(request(c)) :
        /\ done' = [done EXCEPT ![c] = db]
        /\ pend' = [pend EXCEPT ![c] = reply(c, db, FALSE)]
    /\ st' = [st EXCEPT ![c] = "Responding"]
    /\ UNCHANGED <<lpc, rx, data, body, invoked, tx, logged, softFailed,
                   arg, res, pool>>

\* tokio::time::timeout fires first
DeadlineElapses(c) ==
    /\ Running
    /\ st[c] = "Dispatching"
    /\ done' = [done EXCEPT ![c] = "elapsed"]
    /\ pend' = [pend EXCEPT ![c] = reply(c, "none", TRUE)]
    /\ st' = [st EXCEPT ![c] = "Responding"]
    /\ softFailed' = [softFailed EXCEPT ![c] = "timeout"]
    /\ UNCHANGED <<lpc, rx, data, body, invoked, tx, logged, arg, res, pool>>

\* send_response: socket.write_all(res.as_bytes()) completes
WriteAll(c) ==
    /\ Running
    /\ st[c] = "Responding"
    /\ tx' = [tx EXCEPT ![socket(c)] = Append(@, pend[c])]
    /\ st' = [st EXCEPT ![c] = "Flushing"]
    /\ UNCHANGED <<lpc, rx, data, body, invoked, done, pend, logged,
                   softFailed, arg, res, pool>>

\* socket.write_all fails: `?` ends the task, which logs the error; the
\* task's locals are dropped
WriteFail(c) ==
    /\ Running
    /\ st[c] = "Responding"
    /\ st' = [st EXCEPT ![c] = "Closed"]
    /\ logged' = [logged EXCEPT ![c] = IoError]
    /\ data' = [data EXCEPT ![c] = ""]
    /\ body' = [body EXCEPT ![c] = ""]
    /\ invoked' = [invoked EXCEPT ![c] = 0]
    /\ done' = [done EXCEPT ![c] = ""]
    /\ pend' = [pend EXCEPT ![c] = ""]
    /\ softFailed' = [softFailed EXCEPT ![c] = ""]
    /\ UNCHANGED <<lpc, rx, tx, arg, res, pool>>

\* socket.flush completes and the loop is back at socket.read
Flush(c) ==
    /\ Running
    /\ st[c] = "Flushing"
    /\ st' = [st EXCEPT ![c] = "Reading"]
    /\ data' = [data EXCEPT ![c] = ""]
    /\ body' = [body EXCEPT ![c] = ""]
    /\ invoked' = [invoked EXCEPT ![c] = 0]
    /\ done' = [done EXCEPT ![c] = ""]
    /\ pend' = [pend EXCEPT ![c] = ""]
    /\ tx' = [tx EXCEPT ![c] = <<>>]
    /\ UNCHANGED <<lpc, rx, logged, softFailed, arg, res, pool>>

Next ==
    \/ PoolConnect
    \/ InitializeDb
    \/ Bind
    \/ StartupFail
    \/ AcceptFail
    \/ \E c \in Conns : ClientConnect(c)
    \/ \E c \in Conns : Accept(c)
    \/ \E c \in Conns : Read(c)
    \/ \E c \in Conns : ReadEof(c)
    \/ \E c \in Conns : ReadFail(c)
    \/ \E c \in Conns : HandlerReturns(c)
    \/ \E c \in Conns : DeadlineElapses(c)
    \/ \E c \in Conns : WriteAll(c)
    \/ \E c \in Conns : WriteFail(c)
    \/ \E c \in Conns : Flush(c)

Spec == Init /\ [][Next]_vars

(***************************************************************************)
(* One connection, fed a wider choice of byte streams: an empty method,    *)
(* two messages in one piece, a message longer than the buffer.            *)
(***************************************************************************)
RECURSIVE Pad(_)
\* n bytes of preamble
Pad(n) ==
    IF n = 0 THEN ""
    ELSE IF n % 2 = 1 THEN "X" \o Pad(n - 1)
    ELSE Pad(n \div 2) \o Pad(n \div 2)

StreamInputs ==
    Inputs \cup
    { "X\r\n\r\n{\"method\":\"\"}",
      "X\r\n\r\n{\"method\":\"AddCoffee\",\"data\":{\"roastery\":\"r\",\"icon\":\"i\",\"farmer\":\"f\",\"price\":1,\"origin\":\"o\"}}",
      "X\r\n\r\n{\"method\":\"GrabId\",\"data\":{\"roastery\":\"r\",\"origin\":\"o\"}}",
      "X\r\n\r\n{\"data\":\"V1StGXR8\",\"method\":\"GrabCoffee\"}",
      "X\r\n\r\n{\"method\":\"EditCoffee\",\"data\":{\"id\":\"V1StGXR8\",\"price\":2}}",
      "X\r\n\r\n{\"method\":\"Ping\"}X\r\n\r\n{\"method\":\"GetRandomCoffee\"}",
      "X\r\n\r\n{\"method\":\"Ping\"}\r\n\r\n{\"method\":\"GetRandomCoffee\"}",
      Pad(BUF_SIZE + 2) \o "\r\n\r\n{\"method\":\"GetRandomCoffee\"}" }

ReadStream(c) == ReadFrom(c, StreamInputs)

NextOneConn ==
    \/ PoolConnect
    \/ InitializeDb
    \/ Bind
    \/ StartupFail
    \/ AcceptFail
    \/ ClientConnect(1)
    \/ Accept(1)
    \/ ReadStream(1)
    \/ ReadEof(1)
    \/ ReadFail(1)
    \/ HandlerReturns(1)
    \/ DeadlineElapses(1)
    \/ WriteAll(1)
    \/ WriteFail(1)
    \/ Flush(1)

SpecOneConn == Init /\ [][NextOneConn]_vars

\* the scheduler runs the accept loop whenever a connection is waiting
FairSpec == Spec /\ \A c \in Conns : WF_vars(Accept(c))


(***************************************************************************)
(* Response encoding on its own: into_response applied to one Result.      *)
(***************************************************************************)
MaxPieces == 2

Pieces == {"not found", "a", "\"", "\\", "\r\n", "{}", "null", " 7"}

RECURSIVE TextsOf(_)
\* the texts made of at most n pieces
TextsOf(n) ==
    IF n = 0 THEN {""}
    ELSE TextsOf(n - 1) \cup {t \o p : t \in TextsOf(n - 1), p \in Pieces}

Texts == TextsOf(MaxPieces)

\* the values a handler may return: strings, (), a number, a row
Values == {Str(t) : t \in Texts} \cup {Null, Num("-12"), Bool("true"), Coffee}

Results == {Ok(v) : v \in Values} \cup {Err(t) : t \in Texts}

\* what a handler may return: a Result, one whose payload fails to
\* serialize, or the unit
Encodables == Results \cup {Ok(Unserializable), Unit}

InitEncode ==
    /\ lpc = "connect"
    /\ st = [c \in Conns |-> "unborn"]
    /\ rx = [c \in Conns |-> ""]
    /\ data = [c \in Conns |-> ""]
    /\ body = [c \in Conns |-> ""]
    /\ invoked = [c \in Conns |-> 0]
    /\ done = [c \in Conns |-> ""]
    /\ pend = [c \in Conns |-> ""]
    /\ tx = [c \in Conns |-> <<>>]
    /\ logged = [c \in Conns |-> ""]
    /\ softFailed = [c \in Conns |-> ""]
    /\ arg \in Encodables
    /\ res = NoRes
    /\ pool = NoPool

\* res.into_response() on the Result
Encode ==
    /\ res = NoRes
    /\ res' = encode(arg)
    /\ UNCHANGED <<lpc, connVars, arg, pool>>

NextEncode == Encode

SpecEncode == InitEncode /\ [][NextEncode]_vars

(***************************************************************************)
(* What a client sees of a framed response.                                *)
(***************************************************************************)
\* the text between the first `from` and the next `to` after it
Between(s, from, to) ==
    LET a == Find(s, 1, from) + Len(from)
        b == Find(s, a, to)
    IN  IF Find(s, 1, from) = 0 \/ b = 0 THEN "" ELSE SubSeq(s, a, b - 1)

StatusOf(frame) == Between(frame, "HTTP/1.1 ", "\r\n")
ContentLengthOf(frame) == Between(frame, "Content-Length: ", "\r\n")
BodyOf(frame) == From(frame, Find(frame, 1, SEPARATOR) + Len(SEPARATOR))

\* a status line, the two headers, a blank line and as many body bytes as
\* Content-Length says
WellFramed(frame) ==
    /\ StartsAt(frame, 1, "HTTP/1.1 ")
    /\ Find(frame, 1, SEPARATOR) # 0
    /\ StatusOf(frame) # ""
    /\ ContentLengthOf(frame) = ToString(Len(BodyOf(frame)))


(***************************************************************************)
(* Properties.                                                             *)
(***************************************************************************)
HasSeparator(bytes) == Find(bytes, 1, SEPARATOR) # 0

\* the read is not text or has no blank line
SoftFailure(bytes) == ~from_utf8(bytes).ok \/ ~HasSeparator(bytes)

\* the read is text with a blank line whose payload is no {method, data}
DecodeFailure(bytes) ==
    /\ ~SoftFailure(bytes)
    /\ ~parse_request(split_nth1(bytes).body).ok

\* the read was framed and its payload decoded: the handler is called
Routed(c) ==
    /\ data[c] # ""
    /\ ~SoftFailure(data[c])
    /\ parse_request(split_nth1(data[c]).body).ok

Frame400 ==
    "HTTP/1.1 400 Bad Request\r\nContent-Type: application/json\r\nContent-Length: 0\r\n\r\n"

\* C1: a read with a separator and a decodable payload gets exactly one
\* framed response before the connection reads again (nothing is written
\* while the handler runs or the response is pending, one frame is on the
\* socket when the write is done, and the loop is back at the read only with
\* the exchange over), and the frame's Content-Length is the byte length of
\* its body.
C1_OneFramedResponse ==
    \A c \in Conns :
        /\ Routed(c) =>
            /\ st[c] \in {"Dispatching", "Responding", "Flushing"}
            /\ st[c] = "Dispatching" => tx[c] = <<>> /\ pend[c] = ""
            /\ st[c] = "Responding" => tx[c] = <<>> /\ WellFramed(pend[c])
            /\ st[c] = "Flushing" => Len(tx[c]) = 1 /\ WellFramed(tx[c][1])
        /\ st[c] = "Reading" => data[c] = "" /\ tx[c] = <<>> /\ pend[c] = ""

C1_Witness ==
    \E c \in Conns :
        /\ Routed(c)
        /\ st[c] = "Flushing"
        /\ Len(tx[c]) = 1
        /\ Len(BodyOf(tx[c][1])) > 9

\* C2: a read that is not text or has no separator is answered with one
\* `400 Bad Request` frame with an empty body and no handler call; once it
\* is flushed the connection is back at the read, and only a failed write or
\* the end of the process closes it instead; a request read later on that
\* connection gets its one framed response.
C2_SoftFailureInv ==
    \A c \in Conns :
        /\ (data[c] # "" /\ SoftFailure(data[c])) =>
            /\ invoked[c] = 0
            /\ st[c] \in {"Responding", "Flushing"}
            /\ st[c] = "Responding" => pend[c] = Frame400 /\ tx[c] = <<>>
            /\ st[c] = "Flushing" => tx[c] = <<Frame400>>
        /\ (softFailed[c] = "framing" /\ Routed(c) /\ st[c] = "Flushing") =>
            /\ Len(tx[c]) = 1
            /\ WellFramed(tx[c][1])
            /\ StatusOf(tx[c][1]) # "400 Bad Request"

C2_SoftFailureStep ==
    \A c \in Conns :
        (data[c] # "" /\ SoftFailure(data[c]) /\ st'[c] # st[c]) =>
            \/ st[c] = "Responding" /\ st'[c] = "Flushing"
            \/ st[c] = "Flushing" /\ st'[c] = "Reading"
               /\ softFailed'[c] = "framing"
            \/ st[c] = "Responding" /\ st'[c] = "Closed"
               /\ logged'[c] = IoError
            \/ lpc' = "exited"

C2_SoftFailureKeepsOpen == []C2_SoftFailureInv /\ [][C2_SoftFailureStep]_vars

C2_Witness ==
    \E c \in Conns :
        /\ softFailed[c] = "framing"
        /\ Routed(c)
        /\ st[c] = "Flushing"
        /\ StatusOf(tx[c][1]) = "200 OK"

\* the variables of the connections other than c
Others(c) ==
    [d \in Conns \ {c} |->
        <<st[d], rx[d], data[d], body[d], invoked[d], done[d], pend[d],
          tx[d], logged[d], softFailed[d]>>]

\* C3: a read whose payload does not decode ends the connection task with
\* the error: the connection is Closed, nothing was written or is pending,
\* the handler was not called, and the task logged the error; the step
\* changes nothing in any other connection or in the accept loop.
C3_DecodeFailureInv ==
    \A c \in Conns :
        (data[c] # "" /\ DecodeFailure(data[c])) =>
            /\ st[c] = "Closed"
            /\ tx[c] = <<>>
            /\ pend[c] = ""
            /\ invoked[c] = 0
            /\ logged[c] = "Invalid Request"

C3_DecodeFailureStep ==
    \A c \in Conns :
        (data'[c] # data[c] /\ DecodeFailure(data'[c])) =>
            /\ lpc' = lpc
            /\ Others(c)' = Others(c)

C3_DecodeFailureCloses == []C3_DecodeFailureInv /\ [][C3_DecodeFailureStep]_vars

C3_Witness ==
    \E c, d \in Conns :
        /\ c # d
        /\ data[c] # "" /\ DecodeFailure(data[c])
        /\ st[c] = "Closed"
        /\ lpc = "accept"
        /\ st[d] = "Flushing" /\ Routed(d)


\* the handler returned (the deadline did not fire) and its response is on
\* the socket
Answered(c) ==
    /\ Routed(c)
    /\ st[c] = "Flushing"
    /\ done[c] # "elapsed"

\* the message of the failure behind the handler: the router's rejection of
\* the call or the error of the query, "" when the call succeeds
FailureOf(req, db) ==
    IF from_value(req) # "" THEN from_value(req)
    ELSE IF ~dispatch(req, db).ok THEN dispatch(req, db).err
    ELSE ""

Status500 == "500 Internal Server Error"

\* C4: when the call is rejected by the router or its query fails, the
\* response on the socket has status `500 Internal Server Error` and the
\* failure's message as its body.
C4_FailureIs500 ==
    \A c \in Conns :
        (Answered(c) /\ FailureOf(request(c), done[c]) # "") =>
            /\ Len(tx[c]) = 1
            /\ StatusOf(tx[c][1]) = Status500
            /\ BodyOf(tx[c][1]) = FailureOf(request(c), done[c])

\* the call `Ping` is rejected by the router and answered `200 OK`
C4_Witness ==
    \E c \in Conns :
        /\ Answered(c)
        /\ request(c).method = "Ping"
        /\ FailureOf(request(c), done[c]) = "unknown variant Ping"
        /\ StatusOf(tx[c][1]) = "200 OK"

\* C5: when the handler returns before the deadline, the frame on the
\* socket is the encoding of the handler's own result: same status, same
\* body.
C5_ResultUnchanged ==
    \A c \in Conns :
        Answered(c) =>
            tx[c] = <<response(into_response(rpc_router(request(c), done[c])))>>

\* a failed query: encoding the router's result gives a 200 with the
\* message quoted once, the socket carries it quoted once more
C5_Witness ==
    \E c \in Conns :
        /\ Answered(c)
        /\ done[c] = "no_row"
        /\ into_response(rpc_router(request(c), done[c])).status = "200 OK"
        /\ BodyOf(tx[c][1]) # into_response(rpc_router(request(c), done[c])).body

\* C6: for a Result whose payload serializes,
\* encoding Ok(v) gives status `200 OK` and the serialized payload, a
\* JSON text that reads back as v; encoding Err(e) gives status `500 Internal
\* Server Error` and the message itself, not quoted: Err("not found") gives
\* the body `not found`.
C6_ResultEncoding ==
    (res # NoRes /\ arg \in Results) =>
        /\ arg.ok =>
            /\ res.status = "200 OK"
            /\ res.body = to_string(arg.v)
            /\ from_str(res.body).ok
            /\ from_str(res.body).val = arg.v
        /\ ~arg.ok =>
            /\ res.status = Status500
            /\ res.body = arg.err
        /\ arg = Err("not found") => res.body = "not found"

C6_Witness == arg = Err("not found") /\ res = Response(Status500, "not found")

\* the frame of a timeout
FrameTimeout ==
    "HTTP/1.1 500 Internal Server Error\r\nContent-Type: application/json\r\nContent-Length: 20\r\n\r\ndeadline has elapsed"

\* the frame a read is answered with, given how its handler ended
Expected(c) ==
    IF SoftFailure(data[c]) THEN Frame400
    ELSE IF done[c] = "elapsed" THEN FrameTimeout
    ELSE reply(c, done[c], FALSE)

\* C7: a handler call cut off by the deadline is answered with one `500
\* Internal Server Error` frame whose body says the deadline has elapsed;
\* once it is flushed the connection is back at the read, and only a failed
\* write or the end of the process closes it instead; a request read later
\* on that connection gets the response it would get on any connection.
C7_TimeoutInv ==
    \A c \in Conns :
        /\ done[c] = "elapsed" =>
            /\ invoked[c] = 1
            /\ st[c] \in {"Responding", "Flushing"}
            /\ st[c] = "Responding" => pend[c] = FrameTimeout /\ tx[c] = <<>>
            /\ st[c] = "Flushing" =>
                /\ tx[c] = <<FrameTimeout>>
                /\ StatusOf(tx[c][1]) = Status500
                /\ BodyOf(tx[c][1]) = "deadline has elapsed"
        /\ (softFailed[c] = "timeout" /\ Answered(c)) =>
            /\ tx[c] = <<Expected(c)>>
            /\ WellFramed(tx[c][1])
            /\ StatusOf(tx[c][1]) = "200 OK"

C7_TimeoutStep ==
    \A c \in Conns :
        (done[c] = "elapsed" /\ st'[c] # st[c]) =>
            \/ st[c] = "Responding" /\ st'[c] = "Flushing"
            \/ st[c] = "Flushing" /\ st'[c] = "Reading"
               /\ softFailed'[c] = "timeout"
            \/ st[c] = "Responding" /\ st'[c] = "Closed"
               /\ logged'[c] = IoError
            \/ lpc' = "exited"

C7_TimeoutKeepsOpen == []C7_TimeoutInv /\ [][C7_TimeoutStep]_vars

C7_Witness ==
    \E c \in Conns :
        /\ softFailed[c] = "timeout"
        /\ Answered(c)
        /\ done[c] = "row"
        /\ StatusOf(tx[c][1]) = "200 OK"

\* C8: for every read that is text and contains the separator, the payload
\* handed to parse_request is the whole of the read after the first
\* separator.
C8_PayloadIsRemainder ==
    \A c \in Conns :
        (data[c] # "" /\ from_utf8(data[c]).ok /\ HasSeparator(data[c])) =>
            body[c] = From(data[c], Find(data[c], 1, SEPARATOR) + Len(SEPARATOR))

\* the remainder holds a second separator and the payload stops before it
C8_Witness ==
    \E c \in Conns :
        /\ HasSeparator(data[c])
        /\ HasSeparator(From(data[c], Find(data[c], 1, SEPARATOR) + Len(SEPARATOR)))
        /\ body[c] = "{\"method\":\"GetRandomCoffee\","
        /\ st[c] = "Closed"

\* C9: under every interleaving, what is on a connection's socket is the one
\* complete frame that answers that connection's own read, and nothing
\* before its own write; a step changes a socket's content only by the
\* owning task appending its pending frame, or by emptying it.
C9_OwnFramesInv ==
    \A c \in Conns :
        /\ st[c] = "Flushing" => tx[c] = <<Expected(c)>>
        /\ st[c] # "Flushing" => tx[c] = <<>>

C9_OwnFramesStep ==
    \A c \in Conns :
        tx'[c] # tx[c] =>
            \/ st[c] = "Responding" /\ tx'[c] = Append(tx[c], pend[c])
            \/ tx'[c] = <<>>

C9_NoMixing == []C9_OwnFramesInv /\ [][C9_OwnFramesStep]_vars

C9_Witness ==
    \E c, d \in Conns :
        /\ c # d
        /\ st[c] = "Flushing" /\ st[d] = "Flushing"
        /\ StatusOf(tx[c][1]) = "200 OK"
        /\ StatusOf(tx[d][1]) = Status500

\* C10: a connection waiting to be accepted is eventually accepted and gets
\* its task (or accept fails and the process ends), whatever the accepted
\* connections do: no step of theirs is required to happen.
C10_AcceptNeverWaits ==
    \A c \in Conns :
        (st[c] = "backlog") ~> (st[c] = "Reading" \/ lpc = "exited")

C10_Witness ==
    \E c, d \in Conns :
        /\ c # d
        /\ st[c] = "backlog"
        /\ st[d] = "Dispatching"
        /\ ENABLED Accept(c)

\* C11: on one connection at most one handler call is in flight, and a step
\* that reads bytes or calls the handler starts at the read with the
\* previous exchange over: nothing pending, nothing unflushed on the socket;
\* the bytes it takes are the head of what arrived and was not read yet.
C11_OneAtATimeInv ==
    \A c \in Conns :
        /\ invoked[c] \in {0, 1}
        /\ st[c] = "Dispatching" =>
            invoked[c] = 1 /\ pend[c] = "" /\ tx[c] = <<>>
        /\ st[c] = "Reading" => invoked[c] = 0 /\ pend[c] = "" /\ tx[c] = <<>>

C11_OneAtATimeStep ==
    \A c \in Conns :
        ((data'[c] # data[c] /\ data'[c] # "") \/ invoked'[c] > invoked[c]) =>
            /\ st[c] = "Reading"
            /\ data[c] = "" /\ invoked[c] = 0
            /\ pend[c] = "" /\ tx[c] = <<>>
            /\ rx[c] # "" => rx[c] = data'[c] \o rx'[c]

C11_InOrder == []C11_OneAtATimeInv /\ [][C11_OneAtATimeStep]_vars

\* the handler runs on the second read of a stream whose first read was
\* answered and flushed
C11_Witness ==
    \E c \in Conns :
        /\ st[c] = "Dispatching"
        /\ softFailed[c] = "framing"
        /\ Len(data[c]) < 40
        /\ Find(data[c], 1, "XX\r\n\r\n") = 1

\* C12: the bare unit is encoded as status `200 OK` with the body `{}`: its
\* frame starts with `HTTP/1.1 200 OK`, says Content-Length 2 and carries
\* the two bytes `{}`.
C12_UnitEncoding ==
    (res # NoRes /\ arg = Unit) =>
        /\ res.status = "200 OK"
        /\ res.body = "{}"
        /\ StartsAt(response(res), 1, "HTTP/1.1 200 OK\r\n")
        /\ ContentLengthOf(response(res)) = "2"
        /\ BodyOf(response(res)) = "{}"

C12_Witness ==
    /\ arg = Unit
    /\ response(res) = "HTTP/1.1 200 OK\r\nContent-Type: application/json\r\nContent-Length: 2\r\n\r\n{}"

\* every request the handler is called on
Handled(c) == invoked[c] = 1 /\ st[c] \in {"Dispatching", "Responding", "Flushing"}

\* C13: every request the handler is called on has a method that is not
\* the empty string.
C13_MethodNonEmpty ==
    \A c \in Conns : Handled(c) => request(c).method # ""

\* the payload {"method":""} decodes and reaches the handler
C13_Witness ==
    \E c \in Conns :
        /\ Handled(c)
        /\ body[c] = "{\"method\":\"\"}"
        /\ parse_request(body[c]).ok
        /\ request(c).method = ""

\* C14: when the payload of a successful result fails to serialize, the
\* encoding still gives a response, an error one.
C14_SerializationFailureDegrades ==
    (res # NoRes /\ arg = Ok(Unserializable)) =>
        /\ res # Panicked
        /\ res.status = Status500

C14_Witness == arg = Ok(Unserializable) /\ res = Panicked

\* C15: what is handled is one read of at most BUF_SIZE bytes by itself: it
\* leads to at most one handler call and at most one frame, the payload is
\* cut from that read alone, and a read takes only bytes that no earlier
\* read took, so the rest of a long message is framed as a message of its
\* own.
C15_OneReadInv ==
    \A c \in Conns :
        /\ Len(data[c]) <= BUF_SIZE
        /\ invoked[c] <= 1
        /\ Len(tx[c]) <= 1
        /\ data[c] # "" =>
            /\ st[c] \in {"Dispatching", "Responding", "Flushing", "Closed"}
            /\ body[c] = framing(data[c]).body
            /\ invoked[c] = framing(data[c]).calls

C15_OneReadStep ==
    \A c \in Conns :
        (data'[c] # data[c] /\ data'[c] # "") =>
            /\ data[c] = ""
            /\ rx[c] # "" => rx[c] = data'[c] \o rx'[c]
            /\ st'[c] = framing(data'[c]).to

C15_OneReadOneMessage == []C15_OneReadInv /\ [][C15_OneReadStep]_vars

\* the rest of a message longer than the buffer, answered as a message
C15_Witness ==
    \E c \in Conns :
        /\ st[c] = "Flushing"
        /\ softFailed[c] = "framing"
        /\ data[c] = "XX\r\n\r\n{\"method\":\"GetRandomCoffee\"}"
        /\ Len(tx[c]) = 1
        /\ StatusOf(tx[c][1]) = "200 OK"

\* C16: a zero-length read ends the connection Closed with nothing written,
\* nothing pending and no error logged; a failed read ends it Closed with
\* the error logged by the spawning task and nothing written; a Closed
\* connection stays Closed (no retry).
C16_ReadEndStep ==
    \A c \in Conns :
        /\ ReadEof(c) =>
            /\ st[c] = "Reading" /\ st'[c] = "Closed"
            /\ logged'[c] = ""
            /\ tx'[c] = <<>> /\ pend'[c] = "" /\ invoked'[c] = 0
        /\ ReadFail(c) =>
            /\ st[c] = "Reading" /\ st'[c] = "Closed"
            /\ logged'[c] = IoError
            /\ tx'[c] = <<>> /\ pend'[c] = "" /\ invoked'[c] = 0
        /\ st[c] = "Closed" => st'[c] = "Closed"

C16_ReadEndInv ==
    \A c \in Conns :
        (st[c] = "Closed" /\ logged[c] \in {"", IoError}) =>
            tx[c] = <<>> /\ pend[c] = "" /\ invoked[c] = 0 /\ data[c] = ""

C16_ReadEnds == []C16_ReadEndInv /\ [][C16_ReadEndStep]_vars

\* a connection closed by the peer while the server runs, next to one
\* closed by a read or write error
C16_Witness ==
    \E c, d \in Conns :
        /\ lpc = "accept"
        /\ st[c] = "Closed" /\ logged[c] = ""
        /\ st[d] = "Closed" /\ logged[d] = IoError

\* the frames a connection is writing or has written for its read
FramesOf(c) ==
    {tx[c][i] : i \in 1..Len(tx[c])} \cup (IF pend[c] = "" THEN {} ELSE {pend[c]})

StatusLines == {"200 OK", "400 Bad Request", "500 Internal Server Error"}

\* C17: every frame written or being written has one of the three status
\* lines, and a `400 Bad Request` frame answers a read that is not text or
\* has no separator, for which no handler was called.
C17_StatusLines ==
    \A c \in Conns :
        \A f \in FramesOf(c) :
            /\ StartsAt(f, 1, "HTTP/1.1 ")
            /\ StatusOf(f) \in StatusLines
            /\ StatusOf(f) = "400 Bad Request" =>
                /\ SoftFailure(data[c])
                /\ invoked[c] = 0
                /\ done[c] = ""
            /\ invoked[c] = 1 =>
                StatusOf(f) \in {"200 OK", "500 Internal Server Error"}

C17_Witness ==
    \E c, d \in Conns :
        /\ st[c] = "Flushing" /\ st[d] = "Flushing"
        /\ StatusOf(tx[c][1]) = "400 Bad Request"
        /\ StatusOf(tx[d][1]) = "500 Internal Server Error"

\* C18: once the listener is bound the accept loop stays at accept: no step
\* of the program takes server_loop out of it.
C18_AcceptsForever == [][lpc = "accept" => lpc' = "accept"]_vars

\* the loop has returned after it had accepted a connection, which was
\* dropped with the process
C18_Witness ==
    \E c \in Conns :
        /\ lpc = "exited"
        /\ st[c] = "Closed"
        /\ logged[c] = ""

\* the connection has been accepted: its task exists or has ended
Accepted(c) == pool.held[c] # 0

\* C19: the pool is connected once and the schema initialized once, both
\* before the listener accepts; every task that was spawned holds that one
\* handle; no step of a connection task connects, initializes or swaps it;
\* and when startup fails no connection is ever accepted.
C19_HandleInv ==
    /\ pool.made <= 1 /\ pool.schema <= pool.made
    /\ lpc \in {"bind", "accept"} => pool.made = 1 /\ pool.schema = 1
    /\ \A c \in Conns :
        /\ st[c] \in {"Reading", "Dispatching", "Responding", "Flushing"} =>
            Accepted(c)
        /\ Accepted(c) =>
            pool.held[c] = 1 /\ pool.made = 1 /\ pool.schema = 1
        /\ st[c] # "unborn" => pool.made = 1 /\ pool.schema = 1

C19_HandleStep ==
    /\ pool'.made # pool.made => lpc = "connect" /\ lpc' = "init_db"
    /\ pool'.schema # pool.schema => lpc = "init_db" /\ lpc' = "bind"
    /\ \A c \in Conns :
        pool'.held[c] # pool.held[c] =>
            /\ lpc = "accept" /\ st[c] = "backlog" /\ st'[c] = "Reading"
            /\ pool.held[c] = 0
    /\ (lpc \in {"connect", "init_db", "bind"} /\ lpc' = "exited") =>
        \A c \in Conns : st'[c] = "unborn" /\ ~Accepted(c)'
    /\ lpc = "exited" => (st' = st /\ pool' = pool)

C19_OneHandle == []C19_HandleInv /\ [][C19_HandleStep]_vars

\* two tasks at work on the one handle
C19_Witness ==
    \E c, d \in Conns :
        /\ c # d
        /\ st[c] = "Dispatching" /\ st[d] = "Responding"
        /\ pool.held[c] = 1 /\ pool.held[d] = 1
        /\ pool.made = 1 /\ pool.schema = 1

\* C20: a connection is at the read only with the read before it answered:
\* after a non-empty read it is waiting for the handler, writing or flushing
\* its one frame, or Closed; it comes back to the read only from the flush
\* of exactly one frame; the handler is called exactly for the reads that
\* are text, have a separator and a payload that decodes, and a read
\* answered with 400 has no handler call.
C20_NeverSilentInv ==
    \A c \in Conns :
        /\ st[c] = "Reading" => data[c] = "" /\ invoked[c] = 0
        /\ data[c] # "" =>
            /\ st[c] \in {"Dispatching", "Responding", "Flushing", "Closed"}
            /\ invoked[c] = (IF Routed(c) THEN 1 ELSE 0)
            /\ st[c] = "Closed" => DecodeFailure(data[c])
            /\ st[c] = "Flushing" =>
                /\ Len(tx[c]) = 1
                /\ (StatusOf(tx[c][1]) = "400 Bad Request") = SoftFailure(data[c])
                /\ StatusOf(tx[c][1]) = "400 Bad Request" => invoked[c] = 0

C20_NeverSilentStep ==
    \A c \in Conns :
        /\ (st'[c] = "Reading" /\ st[c] # "Reading") =>
            \/ st[c] = "backlog"
            \/ st[c] = "Flushing" /\ Len(tx[c]) = 1
        /\ (data'[c] # data[c] /\ data'[c] # "") => st'[c] # "Reading"

C20_NeverSilent == []C20_NeverSilentInv /\ [][C20_NeverSilentStep]_vars

\* one connection answered 400 without a handler call, another answered
\* after its one handler call
C20_Witness ==
    \E c, d \in Conns :
        /\ st[c] = "Flushing" /\ st[d] = "Flushing"
        /\ invoked[c] = 0 /\ tx[c] = <<Frame400>>
        /\ invoked[d] = 1 /\ Len(tx[d]) = 1 /\ done[d] = "row"
====
